---- MODULE Spec2Model ----
(***************************************************************************)
(* OpenUTM Tauri backend: the command handlers of commands.rs over the     *)
(* QemuController (qemu/controller.rs), the ConfigStore registry           *)
(* (config/mod.rs), the DiskManager (storage/mod.rs) and the in-memory     *)
(* display-session table.                                                  *)
(*                                                                         *)
(* Every command handler is one action.  The collaborators can fail: each  *)
(* handler takes the set of fault points that fail during the call.        *)
(***************************************************************************)
EXTENDS Integers, Sequences, FiniteSets, TLC

\* ------------------------------------------------------------------ bounds

\* OS process ids available to spawned hypervisor processes: 1..MaxPid.
MaxPid == 3

\* open_display re-opens are explored up to this reconnect_attempts value.
MaxReconnect == 2

\* VM ids (uuid strings in the program) and the byte string of each.
VmIds == {"vm-1", "vm-2"}

\* An id that is blank after trim(): every handler rejects it.
BlankId == " "

\* Spec calls every handler, with collaborator faults, on one VM id and on
\* the blank id; SpecMulti calls the lifecycle handlers on every VM id.
SoloIds == {"vm-1"}

ReqIds == SoloIds \cup {BlankId}

IdBytes == ("vm-1" :> <<118, 109, 45, 49>>) @@ ("vm-2" :> <<118, 109, 45, 50>>)
             @@ (" " :> <<32>>)

Pids == 1..MaxPid

\* VMConfig inputs of create_vm: one valid, and one violating each constraint.
ValidConfig == [name |-> "Fedora VM", memory_mb |-> 2048, cpu_cores |-> 2, disk_size_gb |-> 20,
                os |-> "linux"]

Configs == { ValidConfig,
             [ValidConfig EXCEPT !.name = " "],
             [ValidConfig EXCEPT !.memory_mb = 256],
             [ValidConfig EXCEPT !.memory_mb = 511],
             [ValidConfig EXCEPT !.cpu_cores = 0],
             [ValidConfig EXCEPT !.disk_size_gb = 0] }

\* ------------------------------------------------------------------- state

VARIABLES
    records,           \* ConfigStore table vms: id -> VMRecord
    disks,             \* DiskManager: ids whose <id>.qcow2 file exists
    running_vms,       \* QemuController.running_vms: id -> pid of its VMHandle
    procs,             \* pids of live hypervisor processes
    display_sessions,  \* CommandState.display_sessions: id -> DisplaySession
    last,              \* the call that has just returned, and its result
    cycle,             \* progress of a start, pause, resume, stop sequence
    qmp,               \* the control-socket connection of a QmpClient
    reaped,            \* pids of the children the program has waited for
    tasks,             \* the handler calls in flight: task -> its position
    qemu_controller_lock,   \* holder of CommandState.qemu_controller's Mutex
    display_sessions_lock,  \* holder of CommandState.display_sessions' Mutex
    hash_run,          \* resolve_spice_port's loop: bytes read, hash so far
    plans              \* the build_start_args calls made: input and result

vars == <<records, disks, running_vms, procs, display_sessions, last, cycle,
          qmp, reaped, tasks, qemu_controller_lock, display_sessions_lock,
          hash_run, plans>>

\* ----------------------------------------------------------------- helpers

Put(f, k, v) == (k :> v) @@ f

Remove(f, k) == [x \in DOMAIN f \ {k} |-> f[x]]

Range(f) == {f[x] : x \in DOMAIN f}

\* Option<T> values are sequences of length 0 (None) or 1 (Some).
None == <<>>

Some(v) == <<v>>

\* HashMap::get and ConfigStore::get_vm: Option of the value stored under k.
Lookup(f, k) == IF k \in DOMAIN f THEN Some(f[k]) ELSE None

\* str::trim().is_empty() on the ids and names of the model.
IsBlank(s) == s \in {"", " "}

U16 == 65536

\* ------------------------------------------------------------ pure functions

\* Mutant: validate_vm_config without the disk-size check.
validate_vm_config_no_disk_check(config) ==
    IF IsBlank(config.name) THEN "VM name cannot be empty"
    ELSE IF config.memory_mb < 512 THEN "Memory must be at least 512 MB"
    ELSE IF config.cpu_cores = 0 THEN "CPU cores must be at least 1"
    ELSE "ok"

\* The error message of the first constraint the config violates, or "ok".
validate_vm_config(config) ==
    IF IsBlank(config.name) THEN "VM name cannot be empty"
    ELSE IF config.memory_mb < 512 THEN "Memory must be at least 512 MB"
    ELSE IF config.cpu_cores = 0 THEN "CPU cores must be at least 1"
    ELSE IF config.disk_size_gb = 0 THEN "Disk size must be at least 1 GB"
    ELSE "ok"

\* VMStatus values are "Running", "Paused", "Error", "Stopped"; the registry
\* stores the lower-case tags.
parse_vm_status(status) ==
    CASE status = "running" -> "Running"
      [] status = "paused" -> "Paused"
      [] status = "error" -> "Error"
      [] OTHER -> "Stopped"

\* Mutant: status_to_storage with the tags of Paused and Stopped swapped.
status_to_storage_swapped(status) ==
    CASE status = "Running" -> "running"
      [] status = "Paused" -> "stopped"
      [] status = "Error" -> "error"
      [] status = "Stopped" -> "paused"

status_to_storage(status) ==
    CASE status = "Running" -> "running"
      [] status = "Paused" -> "paused"
      [] status = "Error" -> "error"
      [] status = "Stopped" -> "stopped"

map_record_to_vm(record) ==
    [id |-> record.id, name |-> record.name,
     status |-> parse_vm_status(record.status),
     config |-> [name |-> record.name, memory_mb |-> record.memory_mb,
                 cpu_cores |-> record.cpu_cores,
                 disk_size_gb |-> record.disk_size_gb, os |-> record.os]]

\* Mutant: the loop body without the reduction mod 1000.
spice_step_no_mod(hash, byte) == (((hash * 31) % U16) + byte) % U16

\* One turn of resolve_spice_port's loop, in u16 arithmetic:
\* (hash.wrapping_mul(31).wrapping_add(byte)) % 1000.
spice_step(hash, byte) == ((((hash * 31) % U16) + byte) % U16) % 1000

RECURSIVE spice_hash(_, _)
spice_hash(bytes, n) ==
    IF n = 0 THEN 0
    ELSE spice_step(spice_hash(bytes, n - 1), bytes[n])

resolve_spice_port(vm_id) == 5900 + spice_hash(IdBytes[vm_id], Len(IdBytes[vm_id]))

\* Mutant: every session gets the first port of the range.
build_display_session_fixed_port(vm_id, status, reconnect_attempts, last_error) ==
    [vm_id |-> vm_id, protocol |-> "spice", host |-> "127.0.0.1",
     port |-> 5900, status |-> status,
     reconnect_attempts |-> reconnect_attempts, last_error |-> last_error]

build_display_session(vm_id, status, reconnect_attempts, last_error) ==
    [vm_id |-> vm_id, protocol |-> "spice", host |-> "127.0.0.1",
     port |-> resolve_spice_port(vm_id), status |-> status,
     reconnect_attempts |-> reconnect_attempts, last_error |-> last_error]

\* build_start_args fails when QemuCommand::cpu or ::memory rejects a zero.
build_start_args_err(vm) ==
    IF vm.cpu_cores = 0 THEN "Invalid CPU config"
    ELSE IF vm.memory_mb = 0 THEN "Invalid memory config"
    ELSE "ok"

\* --------------------------------------------------------------- controller

\* QemuController::is_running, called by open_display and get_display.
is_running(id) == id \in DOMAIN running_vms

get_running_vms == DOMAIN running_vms

\* Command::spawn gives the child a pid no live or tracked process has.
FreePids == Pids \ (procs \cup Range(running_vms))

NewPid == CHOOSE p \in FreePids : \A q \in FreePids : p <= q

\* QemuController::start_vm after a successful spawn: insert the handle.
\* Mutant: start_vm spawns the process and registers no handle.
controller_start_map_skip(id, pid) == running_vms

controller_start_map(id, pid) == Put(running_vms, id, pid)

\* Mutant: stop_vm takes the handle to be there whatever the map holds.
controller_stop_found_always(id) == TRUE

\* QemuController::stop_vm: the match on running_vms.remove(vm_id).
controller_stop_found(id) == id \in DOMAIN running_vms

\* Mutant: stop_vm kills the process and keeps its handle in the map.
controller_stop_map_keep(id) == running_vms

controller_stop_map(id) == Remove(running_vms, id)

\* handle.process.kill() on the handle removed, if there was one.
controller_stop_procs(id) ==
    IF id \in DOMAIN running_vms THEN procs \ {running_vms[id]} ELSE procs

\* Mutant: pause_vm does not look the id up.
controller_pause_ok_always(id) == TRUE

\* QemuController::pause_vm and ::resume_vm test contains_key only.
controller_pause_ok(id) == id \in DOMAIN running_vms

controller_resume_ok(id) == id \in DOMAIN running_vms

\* ----------------------------------------------------------------- registry

\* Mutant: the UPDATE statement has no WHERE clause.
update_vm_status_all(id, status) ==
    [x \in DOMAIN records |-> [records[x] EXCEPT !.status = status_to_storage(status)]]

\* update_vm_status: fetch_vm_or_err, set the status, ConfigStore::update_vm.
update_vm_status(id, status) ==
    [records EXCEPT ![id].status = status_to_storage(status)]

\* ----------------------------------------------------------- session updates

\* start_vm, lines 281-284.
session_on_start(s) == [s EXCEPT !.status = "connected", !.last_error = None]

\* Mutant: stop_vm disconnects the session and records no error.
session_on_stop_no_error(s) ==
    [s EXCEPT !.status = "disconnected", !.last_error = None]

\* stop_vm, lines 300-303.
session_on_stop(s) ==
    [s EXCEPT !.status = "disconnected", !.last_error = Some("VM stopped")]

\* Mutant: open_display counts every call on an existing session.
session_on_open_always_counts(s) ==
    [s EXCEPT !.status = "connected",
              !.reconnect_attempts = s.reconnect_attempts + 1,
              !.last_error = None]

\* open_display, lines 398-404.
session_on_open(s) ==
    IF s.status = "disconnected" \/ s.status = "error"
    THEN [s EXCEPT !.status = "connected",
                   !.reconnect_attempts = s.reconnect_attempts + 1,
                   !.last_error = None]
    ELSE s

\* Mutant: get_display rewrites the session of every VM that is not running.
session_on_get_overwrites(s, running) ==
    IF ~running
    THEN [s EXCEPT !.status = "disconnected", !.last_error = Some("VM not running")]
    ELSE s

\* get_display, lines 425-430.
session_on_get(s, running) ==
    IF ~running /\ s.status # "disconnected"
    THEN [s EXCEPT !.status = "disconnected", !.last_error = Some("VM not running")]
    ELSE s

\* Mutant: close_display also resets the reconnect counter.
session_on_close_resets(s) ==
    [s EXCEPT !.status = "disconnected", !.reconnect_attempts = 0,
              !.last_error = Some("Display session closed")]

\* close_display, lines 444-447.
session_on_close(s) ==
    [s EXCEPT !.status = "disconnected", !.last_error = Some("Display session closed")]

\* ------------------------------------------------------ results and monitors

\* What the caller and the properties see of a call: the operation, its id,
\* the fault points that fired, the result, and whether the id was supervised
\* and what its persisted status was when the call began.
Result(op, id, fired, err) ==
    [op |-> op, id |-> id, fired |-> fired, ok |-> (err = "ok"), err |-> err,
     preSup |-> id \in DOMAIN running_vms,
     preStatus |-> IF id \in DOMAIN records THEN records[id].status ELSE "absent"]

NoCycle == [stage |-> 0, id |-> BlankId, before |-> {}, pid |-> 0]

\* The sequence start, pause, resume, stop on one id, no other call between
\* and no collaborator fault: stage k after the k-th call of the sequence.
CycleStep(op, id, faults) ==
    IF op = "start" /\ id \in DOMAIN records /\ id \notin DOMAIN running_vms
       /\ faults = {}
    THEN [stage |-> 1, id |-> id, before |-> DOMAIN running_vms, pid |-> NewPid]
    ELSE IF cycle.stage = 1 /\ op = "pause" /\ id = cycle.id /\ faults = {}
    THEN [cycle EXCEPT !.stage = 2]
    ELSE IF cycle.stage = 2 /\ op = "resume" /\ id = cycle.id /\ faults = {}
    THEN [cycle EXCEPT !.stage = 3]
    ELSE IF cycle.stage = 3 /\ op = "stop" /\ id = cycle.id /\ faults = {}
    THEN [cycle EXCEPT !.stage = 4]
    ELSE NoCycle

\* A handler that returns without touching any collaborator state.
Return(op, id, faults, fired, err) ==
    /\ last' = Result(op, id, fired, err)
    /\ cycle' = CycleStep(op, id, faults)
    /\ UNCHANGED <<records, disks, running_vms, procs, display_sessions>>

\* Handler calls that can be in flight at once (tauri runs each command as
\* its own async task).
Tasks == {"t1", "t2"}

NoTask == "none"

\* A task that is running no handler.  local is what a handler holds between
\* two steps: the record it fetched, or the is_running it read.
IdleTask == [op |-> "idle", id |-> BlankId, pc |-> "idle", err |-> "ok", local |-> <<>>]

\* A QmpClient that has opened no connection: QmpClient::new stores the
\* socket path and does nothing else.
QmpIdle == [state |-> "disconnected", next_id |-> 1, sent |-> <<>>,
            pending |-> {}, reported |-> [execute |-> "none", outcome |-> "none"],
            done |-> <<>>, events |-> <<>>, received |-> 0,
            inbound |-> [kind |-> "none", id |-> 0, event |-> "none"]]

\* A handler call that runs from entry to return with no other call in
\* flight: each Mutex guard it takes is dropped again when it returns.
Sequential == UNCHANGED <<tasks, qemu_controller_lock, display_sessions_lock>>

\* No handler of commands.rs and no method of QemuController uses a
\* QmpClient or calls wait()/try_wait() on a Child: stop_vm calls kill() and
\* drops the handle, pause_vm and resume_vm only look the id up.
NoControlTraffic == UNCHANGED <<qmp, reaped>>

\* The records of the pure functions' evaluations are left alone.
NoEvaluation == UNCHANGED <<hash_run, plans>>

\* resolve_spice_port before its loop has read a byte.
HashStart == [len |-> 0, hash |-> 0, exact |-> 0]

\* -------------------------------------------------------------------- Init

Init ==
    /\ records = <<>>
    /\ disks = {}
    /\ running_vms = <<>>
    /\ procs = {}
    /\ display_sessions = <<>>
    /\ last = [op |-> "init", id |-> BlankId, fired |-> {}, ok |-> TRUE,
               err |-> "ok", preSup |-> FALSE, preStatus |-> "absent"]
    /\ cycle = NoCycle
    /\ qmp = QmpIdle
    /\ reaped = {}
    /\ tasks = [t \in Tasks |-> IdleTask]
    /\ qemu_controller_lock = NoTask
    /\ display_sessions_lock = NoTask
    /\ hash_run = HashStart
    /\ plans = <<>>

\* ---------------------------------------------------------------- handlers

\* Fault points: the collaborator calls that fail during one call of a
\* handler.  Registry reads are taken to succeed.
CreateFaults == {{}, {"disk_create"}, {"registry_write"}, {"registry_write", "disk_delete"}}

StartFaults == {{}, {"spawn"}, {"registry_write"}}

StatusFaults == {{}, {"registry_write"}}

DeleteFaults == {{}, {"disk_delete"}, {"registry_delete"}}

\* Uuid::new_v4() returns vm_id: an id nothing refers to.
FreshIds == VmIds \ (DOMAIN records \cup disks \cup DOMAIN running_vms
                       \cup DOMAIN display_sessions)

\* Mutant: create_vm returns the registry error without the rollback.
create_no_rollback(id, faults) == disks \cup {id}

\* The disk left by create_vm's rollback, `let _ = delete_disk(..)`:
\* the deletion can fail and its error is discarded.
create_rollback_disks(id, faults) ==
    IF "disk_delete" \in faults THEN disks \cup {id} ELSE disks \ {id}

create_vm(config, vm_id, faults) ==
    /\ Sequential
    /\ NoControlTraffic
    /\ NoEvaluation
    /\ IF validate_vm_config(config) # "ok"
       THEN Return("create", BlankId, faults, {}, validate_vm_config(config))
       ELSE /\ vm_id \in FreshIds
            /\ LET record == [id |-> vm_id, name |-> config.name, status |-> "stopped",
                              memory_mb |-> config.memory_mb,
                              cpu_cores |-> config.cpu_cores,
                              disk_size_gb |-> config.disk_size_gb,
                              os |-> config.os]
               IN IF "disk_create" \in faults
                  THEN Return("create", vm_id, faults, {"disk_create"},
                              "QEMU error: qemu-img create failed")
                  ELSE IF "registry_write" \in faults
                  THEN /\ disks' = create_rollback_disks(vm_id, faults)
                       /\ last' = Result("create", vm_id, faults, "Database error")
                       /\ cycle' = CycleStep("create", vm_id, faults)
                       /\ UNCHANGED <<records, running_vms, procs, display_sessions>>
                  ELSE /\ disks' = disks \cup {vm_id}
                       /\ records' = Put(records, vm_id, record)
                       /\ last' = Result("create", vm_id, {}, "ok")
                       /\ cycle' = CycleStep("create", vm_id, faults)
                       /\ UNCHANGED <<running_vms, procs, display_sessions>>

start_vm(id, faults) ==
    /\ Sequential
    /\ NoControlTraffic
    /\ NoEvaluation
    /\ IF IsBlank(id)
       THEN Return("start", id, faults, {}, "VM ID cannot be empty")
       ELSE IF id \notin DOMAIN records
       THEN Return("start", id, faults, {}, "VM not found")
       ELSE IF build_start_args_err(records[id]) # "ok"
       THEN Return("start", id, faults, {}, build_start_args_err(records[id]))
       ELSE IF "spawn" \in faults
       THEN Return("start", id, faults, {"spawn"}, "IO error")
       ELSE /\ FreePids # {}
            /\ running_vms' = controller_start_map(id, NewPid)
            /\ procs' = procs \cup {NewPid}
            /\ cycle' = CycleStep("start", id, faults)
            /\ UNCHANGED disks
            /\ IF "registry_write" \in faults
               THEN /\ last' = Result("start", id, faults, "Database error")
                    /\ UNCHANGED <<records, display_sessions>>
               ELSE /\ records' = update_vm_status(id, "Running")
                    /\ display_sessions' =
                         IF id \in DOMAIN display_sessions
                         THEN [display_sessions EXCEPT ![id] = session_on_start(@)]
                         ELSE display_sessions
                    /\ last' = Result("start", id, {}, "ok")

stop_vm(id, faults) ==
    /\ Sequential
    /\ NoControlTraffic
    /\ NoEvaluation
    /\ IF IsBlank(id)
       THEN Return("stop", id, faults, {}, "VM ID cannot be empty")
       ELSE IF ~controller_stop_found(id)
       THEN Return("stop", id, faults, {}, "VM error: VM not running")
       ELSE /\ running_vms' = controller_stop_map(id)
            /\ procs' = controller_stop_procs(id)
            /\ cycle' = CycleStep("stop", id, faults)
            /\ UNCHANGED disks
            /\ IF "registry_write" \in faults
               THEN /\ last' = Result("stop", id, faults, "Database error")
                    /\ UNCHANGED <<records, display_sessions>>
               ELSE IF id \notin DOMAIN records
               THEN /\ last' = Result("stop", id, {}, "VM not found")
                    /\ UNCHANGED <<records, display_sessions>>
               ELSE /\ records' = update_vm_status(id, "Stopped")
                    /\ display_sessions' =
                         IF id \in DOMAIN display_sessions
                         THEN [display_sessions EXCEPT ![id] = session_on_stop(@)]
                         ELSE display_sessions
                    /\ last' = Result("stop", id, {}, "ok")

\* pause_vm and resume_vm differ in the controller call and the status written.
PauseResume(op, id, faults, found, status) ==
    /\ Sequential
    /\ NoControlTraffic
    /\ NoEvaluation
    /\ IF IsBlank(id)
       THEN Return(op, id, faults, {}, "VM ID cannot be empty")
       ELSE IF ~found
       THEN Return(op, id, faults, {}, "VM error: VM not running")
       ELSE IF "registry_write" \in faults
       THEN Return(op, id, faults, faults, "Database error")
       ELSE IF id \notin DOMAIN records
       THEN Return(op, id, faults, {}, "VM not found")
       ELSE /\ records' = update_vm_status(id, status)
            /\ last' = Result(op, id, {}, "ok")
            /\ cycle' = CycleStep(op, id, faults)
            /\ UNCHANGED <<disks, running_vms, procs, display_sessions>>

pause_vm(id, faults) == PauseResume("pause", id, faults, controller_pause_ok(id), "Paused")

resume_vm(id, faults) == PauseResume("resume", id, faults, controller_resume_ok(id), "Running")

get_vm(id) ==
    /\ Sequential
    /\ NoControlTraffic
    /\ NoEvaluation
    /\ IF IsBlank(id)
       THEN Return("get_vm", id, {}, {}, "VM ID cannot be empty")
       ELSE Return("get_vm", id, {}, {}, "ok")

\* What get_vm has returned: Option<VM>.
get_vm_ret(id) ==
    IF id \in DOMAIN records THEN Some(map_record_to_vm(records[id])) ELSE None

list_vms ==
    /\ Sequential
    /\ NoControlTraffic
    /\ NoEvaluation
    /\ Return("list_vms", BlankId, {}, {}, "ok")

\* What list_vms has returned: the VM of every record.
list_vms_ret == {map_record_to_vm(records[id]) : id \in DOMAIN records}

\* Mutant: delete_vm leaves the display session in the map.
delete_sessions_keep(id) == display_sessions

\* delete_vm, line 372: display_sessions.lock().await.remove(&id).
delete_sessions(id) == Remove(display_sessions, id)

delete_vm(id, faults) ==
    /\ Sequential
    /\ NoControlTraffic
    /\ NoEvaluation
    /\ IF IsBlank(id)
       THEN Return("delete", id, faults, {}, "VM ID cannot be empty")
       ELSE IF id \notin DOMAIN records
       THEN Return("delete", id, faults, {}, "ok")
       ELSE /\ running_vms' = controller_stop_map(id)
            /\ procs' = controller_stop_procs(id)
            /\ cycle' = CycleStep("delete", id, faults)
            /\ IF "disk_delete" \in faults
               THEN /\ last' = Result("delete", id, faults, "IO error")
                    /\ UNCHANGED <<records, disks, display_sessions>>
               ELSE IF "registry_delete" \in faults
               THEN /\ disks' = disks \ {id}
                    /\ last' = Result("delete", id, faults, "Database error")
                    /\ UNCHANGED <<records, display_sessions>>
               ELSE /\ disks' = disks \ {id}
                    /\ records' = Remove(records, id)
                    /\ display_sessions' = delete_sessions(id)
                    /\ last' = Result("delete", id, {}, "ok")

\* open_display and get_display return a clone of the stored session:
\* after a successful call the value returned is display_sessions[id].
open_display(id) ==
    /\ Sequential
    /\ NoControlTraffic
    /\ NoEvaluation
    /\ IF IsBlank(id)
       THEN Return("open_display", id, {}, {}, "VM ID cannot be empty")
       ELSE IF id \notin DOMAIN records
       THEN Return("open_display", id, {}, {}, "VM not found")
       ELSE IF ~is_running(id)
       THEN Return("open_display", id, {}, {}, "VM not running")
       ELSE LET session == IF id \in DOMAIN display_sessions
                           THEN session_on_open(display_sessions[id])
                           ELSE build_display_session(id, "connected", 0, None)
            IN /\ session.reconnect_attempts <= MaxReconnect
               /\ display_sessions' = Put(display_sessions, id, session)
               /\ last' = Result("open_display", id, {}, "ok")
               /\ cycle' = CycleStep("open_display", id, {})
               /\ UNCHANGED <<records, disks, running_vms, procs>>

get_display(id) ==
    /\ Sequential
    /\ NoControlTraffic
    /\ NoEvaluation
    /\ IF IsBlank(id)
       THEN Return("get_display", id, {}, {}, "VM ID cannot be empty")
       ELSE IF id \notin DOMAIN display_sessions
       THEN Return("get_display", id, {}, {}, "ok")
       ELSE /\ display_sessions' =
                 [display_sessions EXCEPT ![id] = session_on_get(@, is_running(id))]
            /\ last' = Result("get_display", id, {}, "ok")
            /\ cycle' = CycleStep("get_display", id, {})
            /\ UNCHANGED <<records, disks, running_vms, procs>>

close_display(id) ==
    /\ Sequential
    /\ NoControlTraffic
    /\ NoEvaluation
    /\ IF IsBlank(id)
       THEN Return("close_display", id, {}, {}, "VM ID cannot be empty")
       ELSE /\ display_sessions' =
                 IF id \in DOMAIN display_sessions
                 THEN [display_sessions EXCEPT ![id] = session_on_close(@)]
                 ELSE display_sessions
            /\ last' = Result("close_display", id, {}, "ok")
            /\ cycle' = CycleStep("close_display", id, {})
            /\ UNCHANGED <<records, disks, running_vms, procs>>

\* The environment: a hypervisor process terminates by itself (guest
\* shutdown, crash).  No handler runs; the controller is not told.
ProcessExit(pid) ==
    /\ pid \in procs
    /\ procs' = procs \ {pid}
    /\ last' = [op |-> "exit", id |-> BlankId, fired |-> {}, ok |-> TRUE,
                err |-> "ok", preSup |-> FALSE, preStatus |-> "absent"]
    /\ cycle' = NoCycle
    /\ UNCHANGED <<records, disks, running_vms, display_sessions>>
    /\ Sequential
    /\ NoControlTraffic
    /\ NoEvaluation

Next ==
    \/ \E config \in Configs, id \in SoloIds, faults \in CreateFaults :
         create_vm(config, id, faults)
    \/ \E id \in ReqIds, faults \in StartFaults : start_vm(id, faults)
    \/ \E id \in ReqIds, faults \in StatusFaults : stop_vm(id, faults)
    \/ \E id \in ReqIds, faults \in StatusFaults : pause_vm(id, faults)
    \/ \E id \in ReqIds, faults \in StatusFaults : resume_vm(id, faults)
    \/ \E id \in ReqIds : get_vm(id)
    \/ list_vms
    \/ \E id \in ReqIds, faults \in DeleteFaults : delete_vm(id, faults)
    \/ \E id \in ReqIds : open_display(id)
    \/ \E id \in ReqIds : get_display(id)
    \/ \E id \in ReqIds : close_display(id)
    \/ \E pid \in Pids : ProcessExit(pid)

Spec == Init /\ [][Next]_vars

\* Several VMs side by side: the lifecycle handlers, no collaborator faults.
NextMulti ==
    \/ \E id \in VmIds : create_vm(ValidConfig, id, {})
    \/ \E id \in VmIds : start_vm(id, {})
    \/ \E id \in VmIds : stop_vm(id, {})
    \/ \E id \in VmIds : pause_vm(id, {})
    \/ \E id \in VmIds : resume_vm(id, {})
    \/ \E id \in VmIds : delete_vm(id, {})
    \/ \E pid \in Pids : ProcessExit(pid)

SpecMulti == Init /\ [][NextMulti]_vars

\* create_vm with every config and every fault, on every VM id, next to
\* VMs that are started and stopped.
NextCreate ==
    \/ \E config \in Configs, id \in VmIds, faults \in CreateFaults :
         create_vm(config, id, faults)
    \/ \E id \in VmIds : start_vm(id, {})
    \/ \E id \in VmIds : stop_vm(id, {})

SpecCreate == Init /\ [][NextCreate]_vars

\* Status queries keep being served: every get_vm and get_display call that
\* is made runs to completion.  Nothing else is assumed to happen.
LiveSpec ==
    /\ Spec
    /\ \A id \in SoloIds : WF_vars(get_vm(id)) /\ WF_vars(get_display(id))

\* ------------------------------------------------- handler calls in flight

\* The lifecycle handlers step by step, several calls in flight at once.  A
\* call takes the qemu_controller Mutex, calls the controller, writes the
\* registry status, (start and stop) takes the display_sessions Mutex and
\* updates the session, and drops its guards when it returns.

LifecycleOps == {"start", "stop", "pause", "resume"}

\* The VMStatus a lifecycle handler writes to the registry.
status_written(op) ==
    IF op = "stop" THEN "Stopped" ELSE IF op = "pause" THEN "Paused" ELSE "Running"

\* Two VMs have been created; vm-1 has been started, its display opened, and
\* stopped again, so it has a disconnected display session.
InitConc ==
    /\ records = [id \in VmIds |->
                    [id |-> id, name |-> ValidConfig.name, status |-> "stopped",
                     memory_mb |-> ValidConfig.memory_mb,
                     cpu_cores |-> ValidConfig.cpu_cores,
                     disk_size_gb |-> ValidConfig.disk_size_gb,
                     os |-> ValidConfig.os]]
    /\ disks = VmIds
    /\ running_vms = <<>>
    /\ procs = {}
    /\ display_sessions =
         ("vm-1" :> session_on_stop(build_display_session("vm-1", "connected", 0, None)))
    /\ last = Result("stop", "vm-1", {}, "ok")
    /\ cycle = NoCycle
    /\ qmp = QmpIdle
    /\ reaped = {}
    /\ tasks = [t \in Tasks |-> IdleTask]
    /\ qemu_controller_lock = NoTask
    /\ display_sessions_lock = NoTask
    /\ hash_run = HashStart
    /\ plans = <<>>

\* Mutant: the qemu_controller Mutex lets a second task in.
qemu_controller_lock_free_always == TRUE

\* state.qemu_controller.lock().await completes when nobody holds the guard.
qemu_controller_lock_free == qemu_controller_lock = NoTask

\* state.display_sessions.lock().await completes when nobody holds the guard.
display_sessions_lock_free == display_sessions_lock = NoTask

\* Calls whose later steps need something the bounds of the model limit:
\* a start needs a free pid when it spawns, a re-opening open_display a
\* reconnect counter below its bound.
StartsPending == {u \in Tasks : tasks[u].op = "start" /\ tasks[u].pc \in {"lock", "controller"}}

OpensPending == {u \in Tasks : tasks[u].op = "open_display" /\ tasks[u].pc # "idle"}

CallInBounds(op, id) ==
    /\ op = "start" => Cardinality(FreePids) > Cardinality(StartsPending)
    /\ (op = "open_display" /\ id \in DOMAIN display_sessions) =>
          display_sessions[id].reconnect_attempts + Cardinality(OpensPending) < MaxReconnect

\* A handler is invoked: the id is checked, the handlers that begin with a
\* registry read (start_vm, open_display, delete_vm) find the record
\* (start_vm also builds the arguments), and the call reaches
\* qemu_controller.lock(); close_display reaches display_sessions.lock().
Call(t, op, id) ==
    /\ tasks[t].pc = "idle"
    /\ op \notin {"get_display", "close_display"} => id \in DOMAIN records
    /\ op = "start" => build_start_args_err(records[id]) = "ok"
    /\ CallInBounds(op, id)
    /\ tasks' = [tasks EXCEPT ![t] =
                   [IdleTask EXCEPT !.op = op, !.id = id,
                                    !.pc = IF op = "close_display" THEN "sessions"
                                           ELSE "lock"]]
    /\ UNCHANGED <<records, disks, running_vms, procs, display_sessions, last, cycle,
                   qemu_controller_lock, display_sessions_lock>>
    /\ NoControlTraffic
    /\ NoEvaluation

AcquireController(t) ==
    /\ tasks[t].pc = "lock"
    /\ qemu_controller_lock_free
    /\ qemu_controller_lock' = t
    /\ tasks' = [tasks EXCEPT ![t].pc = "controller"]
    /\ UNCHANGED <<records, disks, running_vms, procs, display_sessions, last, cycle,
                   display_sessions_lock>>
    /\ NoControlTraffic
    /\ NoEvaluation

\* Mutant: a returning handler keeps its display_sessions guard.
ReturnTask_keeps_sessions(t, err) ==
    /\ tasks' = [tasks EXCEPT ![t] = [IdleTask EXCEPT !.err = err]]
    /\ qemu_controller_lock' =
         IF qemu_controller_lock = t THEN NoTask ELSE qemu_controller_lock
    /\ display_sessions_lock' = display_sessions_lock

\* The handler returns: its guards are dropped.
ReturnTask(t, err) ==
    /\ tasks' = [tasks EXCEPT ![t] = [IdleTask EXCEPT !.err = err]]
    /\ qemu_controller_lock' =
         IF qemu_controller_lock = t THEN NoTask ELSE qemu_controller_lock
    /\ display_sessions_lock' =
         IF display_sessions_lock = t THEN NoTask ELSE display_sessions_lock

\* controller.start_vm / stop_vm / pause_vm / resume_vm under the guard; an
\* Err returns at the `?`.  open_display and get_display read is_running and
\* drop the guard; delete_vm stops the VM, discards the result, and drops the
\* guard at the end of its block.
ControllerStep(t) ==
    LET op == tasks[t].op
        id == tasks[t].id
    IN /\ tasks[t].pc = "controller"
       /\ UNCHANGED <<records, disks, display_sessions, last, cycle>>
       /\ NoControlTraffic
       /\ NoEvaluation
       /\ IF op = "start"
          THEN /\ FreePids # {}
               /\ running_vms' = controller_start_map(id, NewPid)
               /\ procs' = procs \cup {NewPid}
               /\ tasks' = [tasks EXCEPT ![t].pc = "registry"]
               /\ UNCHANGED <<qemu_controller_lock, display_sessions_lock>>
          ELSE IF op = "stop" /\ controller_stop_found(id)
          THEN /\ running_vms' = controller_stop_map(id)
               /\ procs' = controller_stop_procs(id)
               /\ tasks' = [tasks EXCEPT ![t].pc = "registry"]
               /\ UNCHANGED <<qemu_controller_lock, display_sessions_lock>>
          ELSE IF \/ op = "pause" /\ controller_pause_ok(id)
                  \/ op = "resume" /\ controller_resume_ok(id)
          THEN /\ tasks' = [tasks EXCEPT ![t].pc = "registry"]
               /\ UNCHANGED <<running_vms, procs, qemu_controller_lock,
                              display_sessions_lock>>
          ELSE IF op = "open_display" /\ is_running(id)
          THEN /\ tasks' = [tasks EXCEPT ![t].pc = "sessions"]
               /\ qemu_controller_lock' = NoTask
               /\ UNCHANGED <<running_vms, procs, display_sessions_lock>>
          ELSE IF op = "get_display"
          THEN /\ tasks' = [tasks EXCEPT ![t].pc = "sessions",
                                         ![t].local = is_running(id)]
               /\ qemu_controller_lock' = NoTask
               /\ UNCHANGED <<running_vms, procs, display_sessions_lock>>
          ELSE IF op = "delete"
          THEN /\ running_vms' = controller_stop_map(id)
               /\ procs' = controller_stop_procs(id)
               /\ tasks' = [tasks EXCEPT ![t].pc = "delete_disk"]
               /\ qemu_controller_lock' = NoTask
               /\ UNCHANGED display_sessions_lock
          ELSE /\ ReturnTask(t, IF op = "open_display" THEN "VM not running"
                                ELSE "VM error: VM not running")
               /\ UNCHANGED <<running_vms, procs>>

\* The record update_vm_status writes: the one it fetched, with the status.
status_patched(record, status) == [record EXCEPT !.status = status_to_storage(status)]

\* ConfigStore::update_vm: one UPDATE of every column of the row with the
\* record's id; no row, no change.
registry_write(record) ==
    IF record.id \in DOMAIN records THEN Put(records, record.id, record) ELSE records

\* update_vm_status, first half: fetch_vm_or_err and the assignment of the
\* status to the fetched copy.
RegistryStep(t) ==
    LET op == tasks[t].op
        id == tasks[t].id
    IN /\ tasks[t].pc = "registry"
       /\ UNCHANGED <<records, disks, running_vms, procs, display_sessions, last, cycle>>
       /\ NoControlTraffic
       /\ NoEvaluation
       /\ IF id \in DOMAIN records
          THEN /\ tasks' = [tasks EXCEPT ![t].pc = "registry_write",
                                         ![t].local = status_patched(records[id],
                                                                   status_written(op))]
               /\ UNCHANGED <<qemu_controller_lock, display_sessions_lock>>
          ELSE ReturnTask(t, "VM not found")

\* update_vm_status, second half: ConfigStore::update_vm of the copy; pause_vm
\* and resume_vm then return.
RegistryWrite(t) ==
    LET op == tasks[t].op
        id == tasks[t].id
    IN /\ tasks[t].pc = "registry_write"
       /\ records' = registry_write(tasks[t].local)
       /\ UNCHANGED <<disks, running_vms, procs, display_sessions, last, cycle>>
       /\ NoControlTraffic
       /\ NoEvaluation
       /\ IF id \notin DOMAIN records
          THEN ReturnTask(t, "VM not found")
          ELSE IF op \in {"start", "stop"}
          THEN /\ tasks' = [tasks EXCEPT ![t].pc = "sessions", ![t].local = <<>>]
               /\ UNCHANGED <<qemu_controller_lock, display_sessions_lock>>
          ELSE ReturnTask(t, "ok")

AcquireSessions(t) ==
    /\ tasks[t].pc = "sessions"
    /\ display_sessions_lock_free
    /\ display_sessions_lock' = t
    /\ tasks' = [tasks EXCEPT ![t].pc = "update_session"]
    /\ UNCHANGED <<records, disks, running_vms, procs, display_sessions, last, cycle,
                   qemu_controller_lock>>
    /\ NoControlTraffic
    /\ NoEvaluation

\* start_vm, stop_vm, get_display and close_display update the session, if
\* there is one, open_display re-opens or inserts it, delete_vm removes it;
\* the handler returns.
SessionStep(t) ==
    LET op == tasks[t].op
        id == tasks[t].id
    IN /\ tasks[t].pc = "update_session"
       /\ display_sessions' =
            IF op = "delete" THEN delete_sessions(id)
            ELSE IF op = "open_display"
            THEN Put(display_sessions, id,
                     IF id \in DOMAIN display_sessions
                     THEN session_on_open(display_sessions[id])
                     ELSE build_display_session(id, "connected", 0, None))
            ELSE IF id \notin DOMAIN display_sessions THEN display_sessions
            ELSE IF op = "get_display"
            THEN [display_sessions EXCEPT ![id] = session_on_get(@, tasks[t].local)]
            ELSE IF op = "close_display"
            THEN [display_sessions EXCEPT ![id] = session_on_close(@)]
            ELSE IF op = "start"
            THEN [display_sessions EXCEPT ![id] = session_on_start(@)]
            ELSE [display_sessions EXCEPT ![id] = session_on_stop(@)]
       /\ ReturnTask(t, "ok")
       /\ UNCHANGED <<records, disks, running_vms, procs, last, cycle>>
       /\ NoControlTraffic
       /\ NoEvaluation

NextConc ==
    \/ \E t \in Tasks, op \in LifecycleOps, id \in VmIds : Call(t, op, id)
    \/ \E t \in Tasks : AcquireController(t)
    \/ \E t \in Tasks : ControllerStep(t)
    \/ \E t \in Tasks : RegistryStep(t)
    \/ \E t \in Tasks : RegistryWrite(t)
    \/ \E t \in Tasks : AcquireSessions(t)
    \/ \E t \in Tasks : SessionStep(t)

SpecConc == InitConc /\ [][NextConc]_vars

\* The task is between taking the qemu_controller guard and returning.
InFlight(t) ==
    tasks[t].pc \in {"controller", "registry", "registry_write", "sessions", "update_session"}

\* ------------------------------------------------------- protocol client

\* The control-socket client.  qmp.rs holds its declaration and the shapes
\* of its messages; the connection, the handshake and the command exchange
\* follow the protocol description (one greeting from the server, one
\* qmp_capabilities command from the client, then commands with ids).

MaxQmpId == 4

\* The "execute" names of the commands callers issue.
QmpCommands == {"query-status", "stop", "cont", "system_powerdown"}

QmpCommand(execute, id) == [execute |-> execute, id |-> id]

\* The number of qmp_capabilities commands in a log of sent commands.
RECURSIVE capabilities_sent(_)
capabilities_sent(sent) ==
    IF sent = <<>> THEN 0
    ELSE capabilities_sent(Tail(sent))
         + (IF Head(sent).execute = "qmp_capabilities" THEN 1 ELSE 0)

\* Mutant: the client sends commands without waiting for the negotiation.
qmp_negotiated_always == TRUE

\* The server has answered the qmp_capabilities command of this connection.
qmp_negotiated == qmp.state = "connected"

\* The socket is opened; the server's greeting is awaited.
qmp_connect ==
    /\ qmp.state = "disconnected"
    /\ qmp' = [QmpIdle EXCEPT !.state = "connecting"]

\* A message read from the socket: a greeting, a response ("return" or
\* "error" key, with the id of its command) or an event.
QmpMessage(kind, id, event) == [kind |-> kind, id |-> id, event |-> event]

\* The read loop has read one more message.
qmp_read(q, msg) == [q EXCEPT !.received = @ + 1, !.inbound = msg]

\* The greeting arrives: the client sends qmp_capabilities, once.
qmp_on_greeting ==
    /\ qmp.state = "connecting"
    /\ capabilities_sent(qmp.sent) = 0
    /\ qmp.next_id <= MaxQmpId
    /\ qmp' = [qmp_read(qmp, QmpMessage("greeting", 0, "none"))
                 EXCEPT !.sent = Append(@, QmpCommand("qmp_capabilities", qmp.next_id)),
                        !.pending = @ \cup {qmp.next_id},
                        !.next_id = @ + 1]

\* A caller issues a command.  Before the negotiation has completed the
\* command is reported as a protocol error: it is not sent and not queued.
qmp_execute(execute) ==
    /\ qmp.state # "disconnected"
    /\ IF ~qmp_negotiated
       THEN qmp' = [qmp EXCEPT !.reported =
                       [execute |-> execute, outcome |-> "protocol_error"]]
       ELSE /\ qmp.next_id <= MaxQmpId
            /\ qmp' = [qmp EXCEPT !.sent = Append(@, QmpCommand(execute, qmp.next_id)),
                                  !.pending = @ \cup {qmp.next_id},
                                  !.next_id = @ + 1,
                                  !.reported = [execute |-> execute, outcome |-> "sent"]]

\* Mutant: a response completes the oldest pending waiter (send order).
qmp_waiter_oldest(id) == CHOOSE w \in qmp.pending : \A x \in qmp.pending : w <= x

\* The waiter a response completes: the one registered under its id.
qmp_waiter(id) == id

\* A response with this id arrives, in any order: its waiter is satisfied
\* on "return" and failed with a protocol error on "error"; the return of
\* qmp_capabilities completes the negotiation.
qmp_on_response(kind, id) ==
    /\ id \in qmp.pending
    /\ qmp' = [qmp_read(qmp, QmpMessage(kind, id, "none"))
                 EXCEPT !.pending = @ \ {qmp_waiter(id)},
                        !.done = (qmp_waiter(id) :> kind) @@ @,
                        !.state = IF /\ kind = "return"
                                     /\ \E i \in 1..Len(qmp.sent) :
                                           /\ qmp.sent[i].id = id
                                           /\ qmp.sent[i].execute = "qmp_capabilities"
                                  THEN "connected" ELSE @]

qmp_on_return(id) == qmp_on_response("return", id)

qmp_on_error(id) == qmp_on_response("error", id)

MaxEvents == 1

QmpEvents == {"SHUTDOWN", "STOP"}

\* An event arrives: it is queued for the subscribers in arrival order and
\* is not looked up in the pending map.
qmp_on_event(event) ==
    /\ qmp.state # "disconnected"
    /\ Len(qmp.events) < MaxEvents
    /\ qmp' = [qmp_read(qmp, QmpMessage("event", 0, event))
                 EXCEPT !.events = Append(@, event)]

\* The socket closes: the client does not reconnect by itself.
qmp_disconnect ==
    /\ qmp.state # "disconnected"
    /\ qmp' = QmpIdle

\* The core of the program is idle while the client is exercised.
CoreIdle ==
    UNCHANGED <<records, disks, running_vms, procs, display_sessions, last, cycle,
                reaped, tasks, qemu_controller_lock, display_sessions_lock,
                hash_run, plans>>

NextQmp ==
    \/ qmp_connect /\ CoreIdle
    \/ qmp_on_greeting /\ CoreIdle
    \/ \E execute \in QmpCommands : qmp_execute(execute) /\ CoreIdle
    \/ \E id \in 1..MaxQmpId : qmp_on_return(id) /\ CoreIdle
    \/ \E id \in 1..MaxQmpId : qmp_on_error(id) /\ CoreIdle
    \/ \E event \in QmpEvents : qmp_on_event(event) /\ CoreIdle
    \/ qmp_disconnect /\ CoreIdle

SpecQmp == Init /\ [][NextQmp]_vars

\* ------------------------------------------------- pure functions at work

MaxIdLen == 3

\* The values of a byte of vm_id.as_bytes().
Bytes == 0..255

\* resolve_spice_port reads the next byte of an id of at most MaxIdLen
\* bytes; exact is the same hash computed in unbounded integers.
HashByte(byte) ==
    /\ hash_run.len < MaxIdLen
    /\ hash_run' = [len |-> hash_run.len + 1,
                    hash |-> spice_step(hash_run.hash, byte),
                    exact |-> (hash_run.exact * 31 + byte) % 1000]
    /\ UNCHANGED <<records, disks, running_vms, procs, display_sessions, last, cycle,
                   qmp, reaped, tasks, qemu_controller_lock, display_sessions_lock,
                   plans>>

\* A call of resolve_spice_port on another id begins.
HashRestart ==
    /\ hash_run.len > 0
    /\ hash_run' = HashStart
    /\ UNCHANGED <<records, disks, running_vms, procs, display_sessions, last, cycle,
                   qmp, reaped, tasks, qemu_controller_lock, display_sessions_lock,
                   plans>>

NextHash ==
    \/ \E byte \in Bytes : HashByte(byte)
    \/ HashRestart

SpecHash == Init /\ [][NextHash]_vars

\* ------------------------------------------------------------ launch plan

\* A String is modelled as the sequence of the pieces it is formatted from.

Digits == <<"0", "1", "2", "3", "4", "5", "6", "7", "8", "9">>

\* u32::to_string and u16::to_string: the decimal digits.
RECURSIVE to_string(_)
to_string(n) ==
    IF n < 10 THEN <<Digits[n + 1]>>
    ELSE to_string(n \div 10) \o <<Digits[(n % 10) + 1]>>

\* default_accelerator(): fixed by the target the program is built for.
Accelerators == {"hvf", "kvm", "whpx", "tcg"}

disk_path(vm_id) == <<"storage_dir/", vm_id, ".qcow2">>

qmp_socket_path(vm_id) == <<"/tmp/openutm-qmp-", vm_id, ".sock">>

\* The options build_start_args inserts into a fresh HashMap.
display_options == ("addr" :> "127.0.0.1") @@ ("disable-ticketing" :> "on")

\* The orders in which iterating that HashMap can yield its keys: the order
\* depends on the RandomState of the map, which differs from map to map.
OptionOrders == {<<"addr", "disable-ticketing">>, <<"disable-ticketing", "addr">>}

\* QemuCommand::build, Display arm: "port=N" and then ",k=v" per option in
\* iteration order.
RECURSIVE spice_options(_, _, _)
spice_options(str, options, order) ==
    IF order = <<>> THEN str
    ELSE spice_options(str \o (IF str = <<>> THEN <<>> ELSE <<",">>)
                           \o <<Head(order), "=", options[Head(order)]>>,
                       options, Tail(order))

\* The builder build_start_args fills: QemuCommand::new() and the setters.
launch_command(vm, disk, accel) ==
    [machine |-> Some("q35"), accelerator |-> Some(accel),
     cpu_count |-> Some(vm.cpu_cores), memory_mb |-> Some(vm.memory_mb),
     drives |-> <<[id |-> "disk0", file |-> disk, format |-> "qcow2",
                   interface |-> "virtio"]>>,
     netdevs |-> <<[id |-> "net0", kind |-> "user"]>>,
     display |-> Some([kind |-> "spice", port |-> Some(resolve_spice_port(vm.id)),
                       options |-> display_options]),
     usb_tablet |-> TRUE]

\* QemuCommand::build: the program name, then each part that is set.
QemuCommand_build(cmd, order) ==
    << <<"qemu-system-x86_64">> >>
    \o (IF cmd.machine # None THEN << <<"-machine">>, <<cmd.machine[1]>> >> ELSE <<>>)
    \o (IF cmd.accelerator # None
        THEN << <<"-accel">>, <<cmd.accelerator[1]>> >> ELSE <<>>)
    \o (IF cmd.cpu_count # None
        THEN << <<"-smp">>, to_string(cmd.cpu_count[1]) >> ELSE <<>>)
    \o (IF cmd.memory_mb # None
        THEN << <<"-m">>, to_string(cmd.memory_mb[1]) >> ELSE <<>>)
    \o (IF cmd.drives # <<>>
        THEN << <<"-drive">>,
                <<"file=">> \o cmd.drives[1].file \o <<",format=", cmd.drives[1].format,
                                                     ",if=", cmd.drives[1].interface>> >>
        ELSE <<>>)
    \o (IF cmd.netdevs # <<>>
        THEN << <<"-netdev">>, <<cmd.netdevs[1].kind, ",id=", cmd.netdevs[1].id>> >>
        ELSE <<>>)
    \o (IF cmd.display # None /\ cmd.display[1].kind = "spice"
        THEN << <<"-spice">>,
                spice_options(IF cmd.display[1].port # None
                              THEN <<"port=">> \o to_string(cmd.display[1].port[1])
                              ELSE <<>>,
                              cmd.display[1].options, order) >>
        ELSE <<>>)
    \o (IF cmd.usb_tablet THEN << <<"-device">>, <<"usb-tablet">> >> ELSE <<>>)

\* Mutant: build_start_args pushes the name before the control socket.
launch_tail_name_first(vm, qmp_socket) ==
    << <<"-name">>, <<vm.name>>,
       <<"-qmp">>, <<"unix:">> \o qmp_socket \o <<",server=on,wait=off">> >>

\* The four arguments build_start_args pushes after the built ones.
launch_tail(vm, qmp_socket) ==
    << <<"-qmp">>, <<"unix:">> \o qmp_socket \o <<",server=on,wait=off">>,
       <<"-name">>, <<vm.name>> >>

\* build_start_args: Err when cpu() or memory() rejects a zero, else the
\* built arguments without the program name, then the tail.
build_start_args(vm, disk, qmp_socket, accel, order) ==
    IF build_start_args_err(vm) # "ok"
    THEN [ok |-> FALSE, err |-> build_start_args_err(vm), args |-> <<>>]
    ELSE [ok |-> TRUE, err |-> "ok",
          args |-> Tail(QemuCommand_build(launch_command(vm, disk, accel), order))
                   \o launch_tail(vm, qmp_socket)]

MaxCalls == 2

\* VM records build_start_args is called with: zero and non-zero CPU count
\* and memory.
PlanRecords ==
    {[id |-> id, name |-> ValidConfig.name, status |-> "stopped",
      memory_mb |-> m, cpu_cores |-> c, disk_size_gb |-> ValidConfig.disk_size_gb,
      os |-> ValidConfig.os] :
        id \in VmIds, m \in {0, ValidConfig.memory_mb}, c \in {0, ValidConfig.cpu_cores}}

\* One call of build_start_args, as start_vm makes it, in a build for one
\* accelerator; the call and its result are recorded.
PlanCall(vm, accel, order) ==
    /\ Len(plans) < MaxCalls
    /\ plans' = Append(plans,
                  [vm |-> vm, accel |-> accel,
                   result |-> build_start_args(vm, disk_path(vm.id),
                                               qmp_socket_path(vm.id), accel, order)])
    /\ UNCHANGED <<records, disks, running_vms, procs, display_sessions, last, cycle,
                   qmp, reaped, tasks, qemu_controller_lock, display_sessions_lock,
                   hash_run>>

NextPlan ==
    \E vm \in PlanRecords, accel \in Accelerators, order \in OptionOrders :
       PlanCall(vm, accel, order)

SpecPlan == Init /\ [][NextPlan]_vars

\* --------------------------------------------------------------- update_vm

\* UpdateVmRequest: the id and an optional name, cpu and memory.
UpdateRequests ==
    [id : SoloIds, name : {None, Some("Renamed"), Some(" ")},
     cpu : {None, Some(0), Some(4)}, memory : {None, Some(511), Some(512)}]
    \cup {[id |-> BlankId, name |-> None, cpu |-> None, memory |-> None]}

\* Mutant: update_vm accepts any memory size.
update_checked_no_memory(request) ==
    IF request.name # None /\ IsBlank(request.name[1]) THEN "VM name cannot be empty"
    ELSE IF request.cpu # None /\ request.cpu[1] = 0 THEN "CPU cores must be at least 1"
    ELSE "ok"

\* The error update_vm returns for the first supplied field that is
\* invalid, in the order name, cpu, memory; "ok" when there is none.
update_checked(request) ==
    IF request.name # None /\ IsBlank(request.name[1]) THEN "VM name cannot be empty"
    ELSE IF request.cpu # None /\ request.cpu[1] = 0 THEN "CPU cores must be at least 1"
    ELSE IF request.memory # None /\ request.memory[1] < 512
    THEN "Memory must be at least 512 MB"
    ELSE "ok"

\* The local record of update_vm with every supplied field set.
update_patched(record, request) ==
    [record EXCEPT
       !.name = IF request.name # None THEN request.name[1] ELSE @,
       !.cpu_cores = IF request.cpu # None THEN request.cpu[1] ELSE @,
       !.memory_mb = IF request.memory # None THEN request.memory[1] ELSE @]

\* Mutant: update_vm writes the patched record before it checks the result
\* of the validation and of the write.
update_written_early(request, err) ==
    Put(records, request.id, update_patched(records[request.id], request))

\* The table after update_vm: ConfigStore::update_vm is its only write and
\* is reached only when every check passed.
update_written(request, err) ==
    IF err = "ok"
    THEN Put(records, request.id, update_patched(records[request.id], request))
    ELSE records

update_vm(request, faults) ==
    /\ Sequential
    /\ NoControlTraffic
    /\ NoEvaluation
    /\ IF IsBlank(request.id)
       THEN Return("update", request.id, faults, {}, "VM ID cannot be empty")
       ELSE IF request.id \notin DOMAIN records
       THEN Return("update", request.id, faults, {}, "VM not found")
       ELSE LET err == IF update_checked(request) # "ok" THEN update_checked(request)
                       ELSE IF "registry_write" \in faults THEN "Database error"
                       ELSE "ok"
            IN /\ records' = update_written(request, err)
               /\ last' = Result("update", request.id,
                                 IF err = "Database error" THEN faults ELSE {}, err)
               /\ cycle' = CycleStep("update", request.id, faults)
               /\ UNCHANGED <<disks, running_vms, procs, display_sessions>>

\* What update_vm has returned on success: the VM of the written record.
update_vm_ret(id) == map_record_to_vm(records[id])

\* One VM is created, patched, and taken through its lifecycle.
NextUpdate ==
    \/ \E config \in Configs, id \in SoloIds : create_vm(config, id, {})
    \/ \E request \in UpdateRequests, faults \in StatusFaults : update_vm(request, faults)
    \/ \E id \in SoloIds : start_vm(id, {})
    \/ \E id \in SoloIds : stop_vm(id, {})
    \/ \E id \in SoloIds : pause_vm(id, {})
    \/ \E id \in SoloIds : resume_vm(id, {})

SpecUpdate == Init /\ [][NextUpdate]_vars

\* ------------------------------------------------------------ state readings

Supervised(id) == id \in DOMAIN running_vms

\* The VM is in the Running state: the controller holds its process handle
\* and it has not been paused.  (The persisted tag alone can lag behind the
\* process: it stays "stopped" when the registry write of start fails.)
VmRunning(id) ==
    /\ Supervised(id)
    /\ id \in DOMAIN records
    /\ parse_vm_status(records[id].status) # "Paused"

\* The hypervisor process of a supervised VM has terminated and no stop or
\* delete has removed its handle.
Crashed(id) == Supervised(id) /\ running_vms[id] \notin procs

\* ------------------------------------------------------------------ claims

\* C1: start on a VM id that is already supervised fails, spawns no new
\* process and leaves the process handle of that id untouched (same pid,
\* still in the map).
C1_StartOnSupervisedFails ==
    [][(last'.op = "start" /\ last'.id \in DOMAIN running_vms)
         => (~last'.ok /\ procs' = procs /\ running_vms' = running_vms)]_vars

\* C2: stop on a VM id that is not supervised returns the VM-not-running
\* error and leaves the registry, the running map, the processes, the disks
\* and the display sessions unchanged.
C2_StopNotSupervised ==
    [][(last'.op = "stop" /\ last'.id \in VmIds /\ last'.id \notin DOMAIN running_vms)
         => (/\ last'.err = "VM error: VM not running"
             /\ UNCHANGED <<records, disks, running_vms, procs, display_sessions>>)]_vars

\* A second stop: the id was stopped before and is not supervised.
C2_Witness ==
    /\ last.op = "stop" /\ last.id \in VmIds
    /\ ~last.preSup /\ last.preStatus = "stopped"
    /\ last.err = "VM error: VM not running"

\* C3: once the hypervisor process of a supervised VM has terminated by
\* itself, the VM eventually leaves the running map (as Error when the exit
\* is detected, or because a stop or delete removed it).
C3_ExitReleasesHandle ==
    \A id \in SoloIds : Crashed(id) ~> ~Supervised(id)

\* C4: from an id that is not supervised and has a registry record, with
\* no collaborator fault, each call of the sequence start, pause, resume,
\* stop succeeds; during it the id is supervised; after it the VM is
\* Stopped, the set of supervised ids is what it was before the start,
\* and the process spawned by the start is dead and referenced by no handle.
C4_FullCycle ==
    /\ cycle.stage \in 1..4 => last.ok /\ last.id = cycle.id
    /\ cycle.stage \in 1..3 =>
         /\ DOMAIN running_vms = cycle.before \cup {cycle.id}
         /\ running_vms[cycle.id] = cycle.pid
    /\ cycle.stage = 4 =>
         /\ DOMAIN running_vms = cycle.before
         /\ Cardinality(DOMAIN running_vms) = Cardinality(cycle.before)
         /\ parse_vm_status(records[cycle.id].status) = "Stopped"
         /\ cycle.pid \notin procs
         /\ cycle.pid \notin Range(running_vms)

\* A full cycle has ended while another VM stayed supervised.
C4_Witness ==
    /\ cycle.stage = 4 /\ last.op = "stop" /\ last.ok
    /\ cycle.before # {} /\ cycle.id \notin cycle.before

\* C5 as stated: pause succeeds only on a Running VM and resume only on a
\* Paused VM.
C5_PauseResumeByState ==
    /\ (last.op = "pause" /\ last.ok) => (last.preSup /\ last.preStatus = "running")
    /\ (last.op = "resume" /\ last.ok) => (last.preSup /\ last.preStatus = "paused")

\* C5 amended: pause and resume succeed only on a supervised VM id, whatever
\* its state (Running or Paused); on an id that is not supervised both fail
\* with the VM-not-running error.
C5_PauseResumeSupervised ==
    (last.op \in {"pause", "resume"} /\ last.id \in VmIds) =>
        /\ last.ok => last.preSup
        /\ ~last.preSup => last.err = "VM error: VM not running"

\* pause has succeeded on a VM that was already Paused.
C5_Witness ==
    last.op = "pause" /\ last.ok /\ last.preSup /\ last.preStatus = "paused"

\* C6: a display session whose status is connected belongs to a VM in the
\* Running state.
C6_ConnectedImpliesRunning ==
    \A id \in DOMAIN display_sessions :
        display_sessions[id].status = "connected" => VmRunning(id)

\* C7: open_display succeeds only when the VM is Running, and then the
\* session is connected on the port resolve_spice_port gives for the id.
C7_OpenRequiresRunning ==
    (last.op = "open_display" /\ last.ok) =>
        /\ last.preSup /\ last.preStatus # "paused"
        /\ display_sessions[last.id].status = "connected"
        /\ display_sessions[last.id].port = resolve_spice_port(last.id)

\* C8: get_display on a VM that has a session and has been stopped (it is
\* not supervised) returns status disconnected and a non-empty last_error.
C8_GetAfterStop ==
    (last.op = "get_display" /\ last.ok /\ ~last.preSup
       /\ last.id \in DOMAIN display_sessions) =>
        /\ display_sessions[last.id].status = "disconnected"
        /\ display_sessions[last.id].last_error # None
        /\ display_sessions[last.id].last_error[1] # ""

\* get_display has returned the session that a stop disconnected.
C8_Witness ==
    /\ last.op = "get_display" /\ last.ok /\ ~last.preSup
    /\ last.preStatus = "stopped"
    /\ last.id \in DOMAIN display_sessions
    /\ display_sessions[last.id].last_error = Some("VM stopped")

\* C9: a successful open_display on a disconnected or errored session
\* adds exactly one to reconnect_attempts; every other step leaves the
\* counter of an existing session unchanged; a session that comes into
\* being is created by open_display with the counter at 0.
C9_ReconnectCounter ==
    [][\A id \in VmIds :
         /\ (id \in DOMAIN display_sessions /\ id \in DOMAIN display_sessions') =>
              display_sessions'[id].reconnect_attempts =
                display_sessions[id].reconnect_attempts +
                  (IF /\ last'.op = "open_display" /\ last'.id = id /\ last'.ok
                      /\ display_sessions[id].status \in {"disconnected", "error"}
                   THEN 1 ELSE 0)
         /\ (id \notin DOMAIN display_sessions /\ id \in DOMAIN display_sessions') =>
              /\ last'.op = "open_display" /\ last'.id = id /\ last'.ok
              /\ display_sessions'[id].reconnect_attempts = 0]_vars

\* A disconnected session has been re-opened.
C9_Witness ==
    /\ last.op = "open_display" /\ last.ok
    /\ display_sessions[last.id].status = "connected"
    /\ display_sessions[last.id].reconnect_attempts >= 1

C11_InvalidCreateNoEffect ==
    [][last'.op = "create" =>
         \A config \in Configs, id \in VmIds, faults \in CreateFaults :
            ( /\ \/ IsBlank(config.name)
                 \/ config.memory_mb < 512
                 \/ config.cpu_cores = 0
                 \/ config.disk_size_gb = 0
              /\ create_vm(config, id, faults) )
            => /\ ~last'.ok
               /\ UNCHANGED <<records, disks, running_vms, procs, display_sessions>>]_vars

\* A create_vm call with zero disk size has been rejected while a VM exists.
C11_Witness ==
    /\ last.op = "create"
    /\ last.err = "Disk size must be at least 1 GB"
    /\ ~last.ok
    /\ DOMAIN records # {}

\* C12: two lifecycle calls (start, stop, pause, resume) on the same VM id
\* are never both between their access to the running map and their return:
\* while one is there, the other has not passed qemu_controller.lock().
C12_SameIdExclusive ==
    \A t, u \in Tasks :
       (t # u /\ tasks[t].id = tasks[u].id) => ~(InFlight(t) /\ InFlight(u))

\* A stop of vm-1 is about to write the registry while another lifecycle
\* call on vm-1 waits for the lock.
C12_Witness ==
    \E t, u \in Tasks :
       /\ t # u
       /\ tasks[t].op = "stop" /\ tasks[t].id = "vm-1" /\ tasks[t].pc = "registry"
       /\ tasks[u].id = "vm-1" /\ tasks[u].pc = "lock"

\* C13: a lifecycle call in flight on one VM never blocks a lifecycle call
\* on a different VM: a call that waits at the lock while only calls on
\* other ids are in flight can take it.
C13_OtherIdNotBlocked ==
    \A t, u \in Tasks :
       (InFlight(t) /\ tasks[u].pc = "lock" /\ tasks[t].id # tasks[u].id)
          => qemu_controller_lock_free

\* C14: a start whose process was spawned and whose registry write of the
\* status failed returns that error, leaves the process alive and the id in
\* the running map; a later stop of that id, with no fault of its own,
\* succeeds.
C14_StartKeptAfterWriteFailure ==
    /\ (last.op = "start" /\ "registry_write" \in last.fired)
          => /\ ~last.ok
             /\ last.err = "Database error"
             /\ Supervised(last.id)
             /\ running_vms[last.id] \in procs
    /\ (last.op = "stop" /\ last.fired = {} /\ last.preSup /\ last.preStatus = "stopped")
          => /\ last.ok
             /\ ~Supervised(last.id)

\* A stop has succeeded on a VM that was supervised while its persisted
\* status was still "stopped": its start had failed at the registry write.
C14_Witness ==
    /\ last.op = "stop"
    /\ last.ok
    /\ last.preSup
    /\ last.preStatus = "stopped"

\* C15: the status get_vm and list_vms return is reconciled with the running
\* map: a supervised VM is not reported Stopped, and a VM whose persisted
\* status is "running" and which is not supervised is not reported Running.
C15_StatusReconciled ==
    \A id \in SoloIds :
       LET reconciled(vm) ==
             /\ Supervised(id) => vm.status # "Stopped"
             /\ (records[id].status = "running" /\ ~Supervised(id))
                   => vm.status # "Running"
       IN /\ (last.op = "get_vm" /\ last.id = id /\ last.ok /\ get_vm_ret(id) # None)
                => reconciled(get_vm_ret(id)[1])
          /\ (last.op = "list_vms" /\ last.ok)
                => \A vm \in list_vms_ret : vm.id = id => reconciled(vm)

\* C16: a stop, pause or resume that returns an error leaves the running
\* map, the persisted status and the display session as they were.
C16_FailedOpChangesNothing ==
    [][(last'.op \in {"stop", "pause", "resume"} /\ ~last'.ok)
          => UNCHANGED <<running_vms, records, display_sessions>>]_vars

\* C17: a start of an unsupervised VM whose persisted status is stopped or
\* error and whose spawn fails returns an error, registers no handle and
\* leaves the VM in the Error state.
C17_SpawnFailureLeavesError ==
    (last.op = "start" /\ "spawn" \in last.fired /\ ~last.preSup
       /\ last.preStatus \in {"stopped", "error"})
       => /\ ~last.ok
          /\ ~Supervised(last.id)
          /\ parse_vm_status(records[last.id].status) = "Error"

\* C18: a successful stop has sent a graceful shutdown request over the
\* control protocol before any kill, and returns only when the process has
\* terminated and been reaped and its handle discarded.
C18_StopGracefulAndReaped ==
    [][(last'.op = "stop" /\ last'.ok /\ last'.id \in DOMAIN running_vms)
          => LET pid == running_vms[last'.id]
             IN /\ \E i \in 1..Len(qmp'.sent) :
                      qmp'.sent[i].execute \in {"system_powerdown", "quit"}
                /\ pid \notin procs'
                /\ pid \in reaped'
                /\ last'.id \notin DOMAIN running_vms']_vars

\* C19: when pause returns success a "stop" command, and when resume returns
\* success a "cont" command, has been sent over the control protocol and
\* acknowledged.
C19_PauseResumeSendCommand ==
    LET acknowledged(execute) ==
          \E i \in 1..Len(qmp.sent) :
             qmp.sent[i].execute = execute /\ qmp.sent[i].id \notin qmp.pending
    IN /\ (last.op = "pause" /\ last.ok) => acknowledged("stop")
       /\ (last.op = "resume" /\ last.ok) => acknowledged("cont")

\* C20: on each connection the client sends exactly one qmp_capabilities
\* command, as the first command; a command issued before the negotiation has
\* completed is reported as a protocol error and never sent, neither at once
\* nor later.
C20_NegotiateOnceFirst ==
    /\ [](/\ capabilities_sent(qmp.sent) <= 1
          /\ qmp.sent # <<>> => qmp.sent[1].execute = "qmp_capabilities"
          /\ qmp.state = "connected" => capabilities_sent(qmp.sent) = 1)
    /\ [][/\ \A execute \in QmpCommands :
                (qmp.state = "connecting" /\ qmp_execute(execute))
                   => /\ qmp'.reported = [execute |-> execute, outcome |-> "protocol_error"]
                      /\ qmp'.sent = qmp.sent
          /\ (Len(qmp'.sent) > Len(qmp.sent) /\ qmp.state # "connected")
                => /\ qmp.sent = <<>>
                   /\ qmp'.sent[1].execute = "qmp_capabilities"]_vars

\* A "stop" issued before the negotiation was reported as a protocol error;
\* the negotiation has completed since and "stop" was never sent.
C20_Witness ==
    /\ qmp.state = "connected"
    /\ qmp.reported = [execute |-> "stop", outcome |-> "protocol_error"]
    /\ capabilities_sent(qmp.sent) = 1
    /\ \A i \in 1..Len(qmp.sent) : qmp.sent[i].execute # "stop"

\* C21: on one connection every command carries an id greater than all ids
\* sent before it; a response, in whatever order it arrives, completes the
\* waiter registered under its own id and no other; an event completes no
\* waiter.
C21_IdsAndWaiters ==
    /\ [](\A i, j \in 1..Len(qmp.sent) : i < j => qmp.sent[i].id < qmp.sent[j].id)
    /\ [][qmp'.received = qmp.received + 1 =>
            LET msg == qmp'.inbound
            IN /\ msg.kind \in {"return", "error"}
                    => /\ msg.id \in qmp.pending
                       /\ qmp'.pending = qmp.pending \ {msg.id}
                       /\ DOMAIN qmp'.done = DOMAIN qmp.done \cup {msg.id}
                       /\ qmp'.done[msg.id] = msg.kind
                       /\ \A w \in DOMAIN qmp.done : qmp'.done[w] = qmp.done[w]
               /\ msg.kind = "event"
                    => /\ qmp'.pending = qmp.pending
                       /\ qmp'.done = qmp.done]_vars

\* Two commands were in flight, the response of the later one has arrived
\* first, and an event has arrived while the earlier one still waits.
C21_Witness ==
    /\ \E a, b \in 1..MaxQmpId :
          /\ a < b
          /\ a \in qmp.pending
          /\ b \in DOMAIN qmp.done
    /\ qmp.inbound.kind = "event"
    /\ qmp.events # <<>>

\* C22: for every id, the empty one included, resolve_spice_port returns a
\* port in 5900..6899; the u16 hash never wraps (hash * 31 + byte stays below
\* 2^16), so it equals the polynomial hash in unbounded integers reduced mod
\* 1000 at each step.  The ids of the model get ports in the range too.
C22_SpicePortInRange ==
    /\ 5900 + hash_run.hash \in 5900..6899
    /\ hash_run.hash = hash_run.exact
    /\ \A byte \in Bytes : hash_run.hash * 31 + byte < U16
    /\ \A id \in VmIds \cup {BlankId} : resolve_spice_port(id) \in 5900..6899

\* The hash has reached its largest value, 999, where the next product is
\* the largest the loop computes.
C22_Witness ==
    /\ hash_run.len = MaxIdLen
    /\ hash_run.hash = 999

\* C23: the launch plan is deterministic: two build_start_args calls with
\* the same VM record, disk path and socket path (in the same build) return
\* the same argument list, element for element.
C23_LaunchPlanDeterministic ==
    \A i, j \in 1..Len(plans) :
       (plans[i].vm = plans[j].vm /\ plans[i].accel = plans[j].accel)
          => plans[i].result = plans[j].result

\* C24: for every VM record with non-zero CPU count and memory the launch
\* plan is Ok and ends with -qmp, the socket value, -name and the VM name, in
\* that order, after the sixteen structural arguments (machine, accelerator,
\* CPUs, memory, drive, network, display, tablet device).
C24_LaunchPlanTail ==
    \A i \in 1..Len(plans) :
       LET vm == plans[i].vm
           args == plans[i].result.args
       IN (vm.cpu_cores # 0 /\ vm.memory_mb # 0)
             => /\ plans[i].result.ok
                /\ Len(args) = 20
                /\ <<args[1], args[3], args[5], args[7], args[9], args[11], args[13],
                     args[15], args[16]>>
                   = << <<"-machine">>, <<"-accel">>, <<"-smp">>, <<"-m">>, <<"-drive">>,
                        <<"-netdev">>, <<"-spice">>, <<"-device">>, <<"usb-tablet">> >>
                /\ args[17] = <<"-qmp">>
                /\ args[18] = <<"unix:", "/tmp/openutm-qmp-", vm.id, ".sock",
                                ",server=on,wait=off">>
                /\ args[19] = <<"-name">>
                /\ args[20] = <<vm.name>>

\* A launch plan has been built for a record with non-zero CPU count and
\* memory, and for one with zero CPUs.
C24_Witness ==
    /\ Len(plans) = 2
    /\ plans[1].result.ok
    /\ plans[1].vm.cpu_cores = 2
    /\ ~plans[2].result.ok

\* C25: update_vm is all-or-nothing: when a supplied field is invalid (blank
\* name, zero CPUs, memory below 512) or the registry write fails, it returns
\* an error and the stored record is unchanged, valid fields included.
C25_UpdateAllOrNothing ==
    [][last'.op = "update" =>
         \A request \in UpdateRequests, faults \in StatusFaults :
            ( /\ request.id \in DOMAIN records
              /\ \/ request.name # None /\ IsBlank(request.name[1])
                 \/ request.cpu # None /\ request.cpu[1] = 0
                 \/ request.memory # None /\ request.memory[1] < 512
                 \/ "registry_write" \in faults
              /\ update_vm(request, faults) )
            => /\ ~last'.ok
               /\ records' = records]_vars

\* An update has been rejected for its memory size on a record whose CPU
\* count an earlier update had patched and whose name is the created one.
C25_Witness ==
    /\ last.op = "update"
    /\ last.err = "Memory must be at least 512 MB"
    /\ last.id \in DOMAIN records
    /\ records[last.id].cpu_cores = 4
    /\ records[last.id].name = ValidConfig.name

\* C26: a successful start persists the status running, pause paused, resume
\* running and stop stopped, and changes no other field of the record.
C26_StatusWriteFrame ==
    [][(last'.op \in LifecycleOps /\ last'.ok)
          => records' = [records EXCEPT ![last'.id].status =
                            CASE last'.op = "start" -> "running"
                              [] last'.op = "pause" -> "paused"
                              [] last'.op = "resume" -> "running"
                              [] last'.op = "stop" -> "stopped"]]_vars

\* A patched VM has been paused.
C26_Witness ==
    /\ last.op = "pause"
    /\ last.ok
    /\ records[last.id].status = "paused"
    /\ records[last.id].name = "Renamed"
    /\ records[last.id].memory_mb = 512

\* C28: every registry record that create and update produce satisfies the
\* configuration constraints, so the record a process was started from
\* satisfies them.
C28_RecordsValid ==
    \A id \in DOMAIN records :
       /\ ~IsBlank(records[id].name)
       /\ records[id].memory_mb >= 512
       /\ records[id].cpu_cores >= 1
       /\ records[id].disk_size_gb >= 1

\* A VM whose name, CPU count and memory were patched has been started.
C28_Witness ==
    /\ last.op = "start"
    /\ last.ok
    /\ records[last.id].name = "Renamed"
    /\ records[last.id].cpu_cores = 4
    /\ records[last.id].memory_mb = 512

\* ------------------------------------------------- several VMs and sessions

\* Two VMs side by side with display sessions: the lifecycle handlers with
\* their collaborator faults, and open_display.  The faults of start_vm are
\* injected into the calls on one of the two VMs.
NextFrame ==
    \/ \E id \in VmIds : create_vm(ValidConfig, id, {})
    \/ \E id \in VmIds : start_vm(id, {})
    \/ \E id \in SoloIds, faults \in StartFaults \ {{}} : start_vm(id, faults)
    \/ \E id \in VmIds, faults \in StatusFaults : stop_vm(id, faults)
    \/ \E id \in VmIds, faults \in StatusFaults : pause_vm(id, faults)
    \/ \E id \in VmIds, faults \in StatusFaults : resume_vm(id, faults)
    \/ \E id \in VmIds : open_display(id)

SpecFrame == Init /\ [][NextFrame]_vars

\* The controller's handle of a VM, its process included.
handle_of(map, live, id) ==
    IF id \in DOMAIN map THEN Some([pid |-> map[id], alive |-> map[id] \in live]) ELSE None

\* C27: a start, stop, pause or resume of one VM, successful or not, leaves
\* the handle, the record and the display session of every other VM
\* unchanged; a VM stays supervised when another VM is stopped.
C27_OtherVmsUntouched ==
    [][last'.op \in LifecycleOps =>
         \A other \in VmIds \ {last'.id} :
            /\ handle_of(running_vms', procs', other) = handle_of(running_vms, procs, other)
            /\ Lookup(records', other) = Lookup(records, other)
            /\ Lookup(display_sessions', other) = Lookup(display_sessions, other)]_vars

\* One VM has been stopped while the other is paused, supervised and has
\* a connected display session.
C27_Witness ==
    /\ last.op = "stop"
    /\ last.ok
    /\ \E other \in VmIds \ {last.id} :
          /\ other \in DOMAIN running_vms
          /\ running_vms[other] \in procs
          /\ other \in DOMAIN records
          /\ records[other].status = "paused"
          /\ other \in DOMAIN display_sessions
          /\ display_sessions[other].status = "connected"

\* C29: a display session's status becomes connected only through a
\* successful open_display: no other handler moves a session from
\* disconnected or error to connected, and none creates a connected one.
C29_ConnectedOnlyByOpen ==
    [][\A id \in DOMAIN display_sessions' :
          ( /\ display_sessions'[id].status = "connected"
            /\ \/ id \notin DOMAIN display_sessions
               \/ display_sessions[id].status \in {"disconnected", "error"} )
          => /\ last'.op = "open_display"
             /\ last'.ok
             /\ last'.id = id]_vars

\* ------------------------------------------------------------------ delete

\* delete_vm with its collaborator faults, on VMs that are created, started,
\* paused and stopped and whose display is opened.
NextDelete ==
    \/ \E id \in SoloIds : create_vm(ValidConfig, id, {})
    \/ \E id \in ReqIds, faults \in StartFaults : start_vm(id, faults)
    \/ \E id \in ReqIds : stop_vm(id, {})
    \/ \E id \in ReqIds : pause_vm(id, {})
    \/ \E id \in ReqIds : open_display(id)
    \/ \E id \in ReqIds, faults \in DeleteFaults : delete_vm(id, faults)

SpecDelete == Init /\ [][NextDelete]_vars

\* C30: after delete_vm returned success for an id that had a registry
\* record, the id has no record, no disk, no display session and no handle
\* in the running map, whether or not the VM was running; delete_vm of an
\* id with no record returns success and changes nothing.
C30_DeleteRemovesEverything ==
    /\ []((last.op = "delete" /\ last.ok /\ last.preStatus # "absent")
            => /\ last.id \notin DOMAIN records
               /\ last.id \notin disks
               /\ last.id \notin DOMAIN display_sessions
               /\ last.id \notin DOMAIN running_vms)
    /\ [][(last'.op = "delete" /\ ~IsBlank(last'.id) /\ last'.preStatus = "absent")
            => /\ last'.ok
               /\ UNCHANGED <<records, disks, running_vms, procs, display_sessions>>]_vars

\* A supervised VM whose persisted status was running has been deleted.
C30_Witness ==
    /\ last.op = "delete"
    /\ last.ok
    /\ last.preSup
    /\ last.preStatus = "running"
    /\ last.id \notin DOMAIN records

\* ---------------------------------------------------------- display sessions

\* The display handlers next to the lifecycle of the VM: no collaborator
\* faults.
NextDisplay ==
    \/ \E id \in SoloIds : create_vm(ValidConfig, id, {})
    \/ \E id \in ReqIds : start_vm(id, {})
    \/ \E id \in ReqIds : stop_vm(id, {})
    \/ \E id \in ReqIds : pause_vm(id, {})
    \/ \E id \in ReqIds : open_display(id)
    \/ \E id \in ReqIds : get_display(id)
    \/ \E id \in ReqIds : close_display(id)
    \/ \E id \in ReqIds, faults \in DeleteFaults : delete_vm(id, faults)

SpecDisplay == Init /\ [][NextDisplay]_vars

\* C31: close_display sets an existing session to disconnected with
\* last_error "Display session closed" and leaves its port and reconnect
\* counter unchanged; on an id with no session it returns success and creates
\* none.  A session comes into being through a successful open_display only,
\* and a successful delete_vm leaves none.
C31_CloseAndSessionExistence ==
    /\ [][(last'.op = "close_display" /\ ~IsBlank(last'.id))
            => /\ last'.ok
               /\ DOMAIN display_sessions' = DOMAIN display_sessions
               /\ last'.id \in DOMAIN display_sessions =>
                     /\ display_sessions'[last'.id].status = "disconnected"
                     /\ display_sessions'[last'.id].last_error
                           = Some("Display session closed")
                     /\ display_sessions'[last'.id].port
                           = display_sessions[last'.id].port
                     /\ display_sessions'[last'.id].reconnect_attempts
                           = display_sessions[last'.id].reconnect_attempts]_vars
    /\ [][\A id \in DOMAIN display_sessions' \ DOMAIN display_sessions :
             /\ last'.op = "open_display"
             /\ last'.ok
             /\ last'.id = id]_vars
    /\ []((last.op = "delete" /\ last.ok) => last.id \notin DOMAIN display_sessions)

\* A session that had been re-opened has been closed.
C31_Witness ==
    /\ last.op = "close_display"
    /\ last.ok
    /\ last.id \in DOMAIN display_sessions
    /\ display_sessions[last.id].reconnect_attempts >= 1
    /\ display_sessions[last.id].last_error = Some("Display session closed")

\* The value of the -spice argument of a launch plan.
RECURSIVE spice_argument(_)
spice_argument(args) ==
    IF Len(args) < 2 THEN <<>>
    ELSE IF Head(args) = <<"-spice">> THEN args[2]
    ELSE spice_argument(Tail(args))

\* C32: the session stored under VM id i has vm_id i, host 127.0.0.1 and
\* port resolve_spice_port(i), the port the launch plan of i passes in its
\* display argument; no operation changes the host or the port of a session.
C32_SessionEndpoint ==
    /\ [](\A id \in DOMAIN display_sessions :
            /\ display_sessions[id].vm_id = id
            /\ display_sessions[id].host = "127.0.0.1"
            /\ display_sessions[id].port = resolve_spice_port(id)
            /\ id \in DOMAIN records =>
                 \A accel \in Accelerators, order \in OptionOrders :
                    LET plan == build_start_args(records[id], disk_path(id),
                                                 qmp_socket_path(id), accel, order)
                    IN /\ plan.ok
                       /\ SubSeq(spice_argument(plan.args), 1,
                                 1 + Len(to_string(display_sessions[id].port)))
                            = <<"port=">> \o to_string(display_sessions[id].port)
                       /\ spice_argument(plan.args)
                             [2 + Len(to_string(display_sessions[id].port))] = ",")
    /\ [][\A id \in DOMAIN display_sessions \cap DOMAIN display_sessions' :
             /\ display_sessions'[id].host = display_sessions[id].host
             /\ display_sessions'[id].port = display_sessions[id].port]_vars

\* A session has been opened, disconnected by a stop and re-opened.
C32_Witness ==
    /\ last.op = "open_display"
    /\ last.ok
    /\ display_sessions[last.id].reconnect_attempts >= 1
    /\ display_sessions[last.id].port = 6431

\* C33: get_display is idempotent and never raises a session's status: a
\* second get_display right after the first changes nothing, a session that
\* is disconnected keeps its last_error, and no session becomes connected.
C33_GetDisplayIdempotent ==
    /\ [][(last'.op = "get_display" /\ last.op = "get_display"
            /\ last'.id = last.id /\ last.ok)
            => /\ last'.ok
               /\ display_sessions' = display_sessions]_vars
    /\ [][last'.op = "get_display" =>
             \A id \in DOMAIN display_sessions :
                /\ id \in DOMAIN display_sessions'
                /\ display_sessions[id].status = "disconnected"
                     => display_sessions'[id] = display_sessions[id]
                /\ display_sessions'[id].status = "connected"
                     => display_sessions[id].status = "connected"]_vars

\* get_display has returned the closed session of a VM that is stopped.
C33_Witness ==
    /\ last.op = "get_display"
    /\ last.ok
    /\ last.id \in DOMAIN display_sessions
    /\ last.id \notin DOMAIN running_vms
    /\ display_sessions[last.id].last_error = Some("Display session closed")

\* C37: with no handler call in flight, a VM whose persisted status is
\* running or paused is supervised: its id is in the running map.
C37_ActiveStatusSupervised ==
    \A id \in DOMAIN records :
       records[id].status \in {"running", "paused"} => id \in DOMAIN running_vms

\* C38: every live process the controller spawned is the process of a handle
\* in the running map, so no VM id has more than one live process.
C38_NoOrphanProcess == procs \subseteq Range(running_vms)

\* ------------------------------------------- every handler, calls in flight

\* The handlers that take a lock, and update_vm, which takes none.
RaceOps == LifecycleOps \cup {"open_display", "delete"}

\* Valid patches: a new name, a new CPU count.
RaceRequests ==
    {request \in UpdateRequests :
        /\ request.id \in SoloIds
        /\ request.memory = None
        /\ \/ request.name = Some("Renamed") /\ request.cpu = None
           \/ request.name = None /\ request.cpu = Some(4)}

\* One VM has been created.
InitRace ==
    /\ records = [id \in SoloIds |->
                    [id |-> id, name |-> ValidConfig.name, status |-> "stopped",
                     memory_mb |-> ValidConfig.memory_mb,
                     cpu_cores |-> ValidConfig.cpu_cores,
                     disk_size_gb |-> ValidConfig.disk_size_gb,
                     os |-> ValidConfig.os]]
    /\ disks = SoloIds
    /\ running_vms = <<>>
    /\ procs = {}
    /\ display_sessions = <<>>
    /\ last = Result("create", "vm-1", {}, "ok")
    /\ cycle = NoCycle
    /\ qmp = QmpIdle
    /\ reaped = {}
    /\ tasks = [t \in Tasks |-> IdleTask]
    /\ qemu_controller_lock = NoTask
    /\ display_sessions_lock = NoTask
    /\ hash_run = HashStart
    /\ plans = <<>>

\* update_vm up to its registry write: the record is fetched and the
\* supplied fields, all valid, are assigned to the fetched copy.
CallUpdate(t, request) ==
    /\ tasks[t].pc = "idle"
    /\ request.id \in DOMAIN records
    /\ update_checked(request) = "ok"
    /\ tasks' = [tasks EXCEPT ![t] =
                   [IdleTask EXCEPT !.op = "update", !.id = request.id,
                                    !.pc = "update_write",
                                    !.local = update_patched(records[request.id], request)]]
    /\ UNCHANGED <<records, disks, running_vms, procs, display_sessions, last, cycle,
                   qemu_controller_lock, display_sessions_lock>>
    /\ NoControlTraffic
    /\ NoEvaluation

\* update_vm's ConfigStore::update_vm of the patched copy, and the return.
UpdateWrite(t) ==
    /\ tasks[t].pc = "update_write"
    /\ records' = registry_write(tasks[t].local)
    /\ ReturnTask(t, IF tasks[t].id \in DOMAIN records THEN "ok" ELSE "VM not found")
    /\ UNCHANGED <<disks, running_vms, procs, display_sessions, last, cycle>>
    /\ NoControlTraffic
    /\ NoEvaluation

\* delete_vm: disk_manager.delete_disk.
DiskStep(t) ==
    /\ tasks[t].pc = "delete_disk"
    /\ disks' = disks \ {tasks[t].id}
    /\ tasks' = [tasks EXCEPT ![t].pc = "delete_record"]
    /\ UNCHANGED <<records, running_vms, procs, display_sessions, last, cycle,
                   qemu_controller_lock, display_sessions_lock>>
    /\ NoControlTraffic
    /\ NoEvaluation

\* delete_vm: config_store.delete_vm; display_sessions.lock() comes next.
RecordStep(t) ==
    /\ tasks[t].pc = "delete_record"
    /\ records' = Remove(records, tasks[t].id)
    /\ tasks' = [tasks EXCEPT ![t].pc = "sessions"]
    /\ UNCHANGED <<disks, running_vms, procs, display_sessions, last, cycle,
                   qemu_controller_lock, display_sessions_lock>>
    /\ NoControlTraffic
    /\ NoEvaluation

\* The steps of a call in flight of a handler that takes a lock.
LockStep(t) ==
    \/ ControllerStep(t)
    \/ RegistryStep(t)
    \/ RegistryWrite(t)
    \/ DiskStep(t)
    \/ RecordStep(t)
    \/ SessionStep(t)

\* The steps of the call a task has in flight.
TaskStep(t) == LockStep(t) \/ UpdateWrite(t)

NextRace ==
    \/ \E t \in Tasks, op \in RaceOps, id \in SoloIds : Call(t, op, id)
    \/ \E t \in Tasks, request \in RaceRequests : CallUpdate(t, request)
    \/ \E t \in Tasks : AcquireController(t)
    \/ \E t \in Tasks : AcquireSessions(t)
    \/ \E t \in Tasks : TaskStep(t)

SpecRace == InitRace /\ [][NextRace]_vars

\* Every handler that takes a lock, calls in flight on one VM.
LockOps == RaceOps \cup {"get_display", "close_display"}

NextLock ==
    \/ \E t \in Tasks, op \in LockOps, id \in SoloIds : Call(t, op, id)
    \/ \E t \in Tasks : AcquireController(t)
    \/ \E t \in Tasks : AcquireSessions(t)
    \/ \E t \in Tasks : LockStep(t)

SpecLock == InitRace /\ [][NextLock]_vars

\* The collaborators return, so a call in flight takes its next step; both
\* Mutexes are tokio::sync::Mutex, which hands the guard to waiters in the
\* order they asked, so a call waiting at a lock() gets the guard.
FairLock ==
    /\ SpecLock
    /\ \A t \in Tasks : SF_vars(LockStep(t) \/ AcquireController(t) \/ AcquireSessions(t))

\* No handler call is in flight.
Quiescent == \A t \in Tasks : tasks[t].pc = "idle"

\* C34: however open_display(id) interleaves with stop_vm(id) or
\* delete_vm(id), once the calls have returned the session of id is not
\* connected unless id is supervised.
C34_OpenAtomicWithStop ==
    Quiescent =>
       \A id \in DOMAIN display_sessions :
          display_sessions[id].status = "connected" => id \in DOMAIN running_vms

\* C35: however delete_vm(id) interleaves with start_vm(id), once the calls
\* have returned and the record of id is deleted, id is not supervised and
\* none of the processes spawned is alive.
C35_DeleteLeavesNoProcess ==
    Quiescent =>
       \A id \in SoloIds :
          id \notin DOMAIN records => (id \notin DOMAIN running_vms /\ procs = {})

\* C36: the registry writes lose no update: the write of update_vm leaves
\* the persisted status as it is, and the status write of a lifecycle
\* handler leaves the name, the CPU count and the memory as they are.
C36_NoLostUpdate ==
    [][\A t \in Tasks :
          LET id == tasks[t].id
          IN (tasks'[t].pc # tasks[t].pc /\ id \in DOMAIN records) =>
                /\ tasks[t].pc = "update_write" =>
                      records'[id].status = records[id].status
                /\ tasks[t].pc = "registry_write" =>
                      /\ records'[id].name = records[id].name
                      /\ records'[id].cpu_cores = records[id].cpu_cores
                      /\ records'[id].memory_mb = records[id].memory_mb]_vars

\* C39: the handlers cannot deadlock on the two locks.  No call waits for
\* the qemu_controller guard or holds it while it holds the display_sessions
\* guard, so the guards are taken in one order; a call that has returned
\* holds no guard; and every call in flight returns.
C39_NoDeadlock ==
    /\ [](\A t \in Tasks :
            /\ display_sessions_lock = t => tasks[t].pc = "update_session"
            /\ qemu_controller_lock = t => InFlight(t)
            /\ tasks[t].pc = "idle" =>
                  (qemu_controller_lock # t /\ display_sessions_lock # t))
    /\ \A t \in Tasks : (tasks[t].pc # "idle") ~> (tasks[t].pc = "idle")

\* A start or stop holds the qemu_controller guard and waits for the
\* display_sessions guard, which another call holds.
C39_Witness ==
    \E t, u \in Tasks :
       /\ t # u
       /\ tasks[t].pc = "sessions"
       /\ qemu_controller_lock = t
       /\ display_sessions_lock = u
====
